---- MODULE Spec2Model ----
(***************************************************************************)
(* Model of the markovid sampler: run_mcmc and coupling (src/src/main.cpp) *)
(* and Particle::init, update, the parameter transforms, get_adjustment    *)
(* and the delay lookups (src/src/Particle.cpp).                           *)
(*                                                                         *)
(* Numbers.  Natural-space values (theta, theta_min, theta_max) are        *)
(* integers.  Log-space values (phi of kinds 1-3, loglike, logprior, the   *)
(* adjustment, log(U)) are integers in units of 1/100 of log 2, so that    *)
(* exp and log are exact on the grid the proposals are drawn from.  A      *)
(* double that may be non-finite is a record (Fin, NaN, PInf, NInf).       *)
(***************************************************************************)
EXTENDS Integers, Sequences, FiniteSets, TLC

\* ---------------------------------------------------------------- bounds
MaxRungs == 3
MaxBurnin == 3
MaxSamples == 2
\* rung-sweeps explored in one run: rungs * (burnin - 1 + samples) <= MaxWork
MaxWork == 4
GTI_pow == 1

\* ---------------------------------------------------------------- doubles
Fin(n) == [k |-> "fin", v |-> n]
NaN == [k |-> "nan", v |-> 0]
PInf == [k |-> "inf", v |-> 1]
NInf == [k |-> "inf", v |-> -1]

IsFinite(a) == a.k = "fin"

FNeg(a) == IF a.k = "nan" THEN NaN ELSE [k |-> a.k, v |-> 0 - a.v]

FAdd(a, b) ==
  IF a.k = "nan" \/ b.k = "nan" THEN NaN
  ELSE IF a.k = "inf" /\ b.k = "inf" THEN (IF a.v = b.v THEN a ELSE NaN)
  ELSE IF a.k = "inf" THEN a
  ELSE IF b.k = "inf" THEN b
  ELSE Fin(a.v + b.v)

FSub(a, b) == FAdd(a, FNeg(b))

\* a < b on doubles: false as soon as one side is NaN
FLess(a, b) ==
  /\ a.k # "nan"
  /\ b.k # "nan"
  /\ IF a.k = "fin" /\ b.k = "fin" THEN a.v < b.v
     ELSE IF a.k = "inf" /\ b.k = "inf" THEN a.v < b.v
     ELSE IF a.k = "inf" THEN a.v < 0
     ELSE b.v > 0

\* n * a for an integer n > 0
FScale(n, a) == IF a.k = "fin" THEN Fin(n * a.v) ELSE a

\* log of a natural-space value, in 1/100 of log 2
LogTab == <<0, 100, 158, 200, 232, 258, 281, 300>>

RECURSIVE LogPos(_)
LogPos(x) == IF x <= Len(LogTab) THEN LogTab[x] ELSE 100 + LogPos(x \div 2)

\* log(x): NaN below zero, -inf at zero
FLog(x) ==
  IF x < 0 THEN NaN
  ELSE IF x = 0 THEN NInf
  ELSE Fin(LogPos(x))

\* exp of a log-space value as a fraction <<numerator, denominator>>
FExp(p) ==
  LET e == p \div 100
  IN IF e >= 0 THEN <<2 ^ e, 1>> ELSE <<1, 2 ^ (0 - e)>>

Abs(x) == IF x < 0 THEN 0 - x ELSE x

\* ---------------------------------------------------------------- System
\* the parameter vector has two entries; the four pairs of transform kinds
\* cover kinds 0..3
TransTypes == {[i \in 0..1 |-> (i + k) % 4] : k \in 0..3}
SkipParams == {[i \in 0..1 |-> FALSE], [i \in 0..1 |-> i = 0]}

\* an initial value strictly inside (theta_min, theta_max) for each kind
ThetaInit(kind) == CASE kind = 0 -> 4 [] kind = 1 -> 5 [] kind = 2 -> 3 [] OTHER -> 4

\* System::load: the fields of the System object the sampler reads
Systems ==
  { [rungs |-> n, burnin |-> b, samples |-> m, coupling_on |-> c,
     d |-> 2, trans_type |-> tt, skip_param |-> sk,
     theta_min |-> [i \in 0..1 |-> 1], theta_max |-> [i \in 0..1 |-> 7],
     theta_init |-> [i \in 0..1 |-> ThetaInit(tt[i])]] :
       n \in 1..MaxRungs, b \in 1..MaxBurnin, m \in 1..MaxSamples,
       c \in BOOLEAN, tt \in TransTypes, sk \in SkipParams }

ValidSystems == {sy \in Systems : sy.rungs * (sy.burnin - 1 + sy.samples) <= MaxWork}

\* ---------------------------------------------------------------- Particle
\* one entry of theta_to_phi, as a double
theta_to_phi_at(sy, i, t) ==
  CASE sy.trans_type[i] = 0 -> Fin(t)
    [] sy.trans_type[i] = 1 -> FLog(sy.theta_max[i] - t)
    [] sy.trans_type[i] = 2 -> FLog(t - sy.theta_min[i])
    [] sy.trans_type[i] = 3 -> FSub(FLog(t - sy.theta_min[i]), FLog(sy.theta_max[i] - t))

theta_to_phi(sy, theta) == [i \in 0..(sy.d - 1) |-> theta_to_phi_at(sy, i, theta[i]).v]

\* as phi_prop_to_theta_prop, but kind 2 leaves out theta_min and kind 3 swaps
\* the two bounds
phi_prop_to_theta_prop_bad(sy, i, pp) ==
  LET e == FExp(pp)
  IN CASE sy.trans_type[i] = 0 -> pp
       [] sy.trans_type[i] = 1 -> (sy.theta_max[i] * e[2] - e[1]) \div e[2]
       [] sy.trans_type[i] = 2 -> e[1] \div e[2]
       [] sy.trans_type[i] = 3 ->
            (sy.theta_min[i] * e[1] + sy.theta_max[i] * e[2]) \div (e[2] + e[1])

\* theta_prop[i] computed from phi_prop[i]
phi_prop_to_theta_prop(sy, i, pp) ==
  LET e == FExp(pp)
  IN CASE sy.trans_type[i] = 0 -> pp
       [] sy.trans_type[i] = 1 -> (sy.theta_max[i] * e[2] - e[1]) \div e[2]
       [] sy.trans_type[i] = 2 -> (e[1] + sy.theta_min[i] * e[2]) \div e[2]
       [] sy.trans_type[i] = 3 ->
            (sy.theta_max[i] * e[1] + sy.theta_min[i] * e[2]) \div (e[2] + e[1])

\* the adjustment for index i at the current value t and the proposed value tp
get_adjustment(sy, i, t, tp) ==
  CASE sy.trans_type[i] = 0 -> Fin(0)
    [] sy.trans_type[i] = 1 ->
         FSub(FLog(tp - sy.theta_max[i]), FLog(t - sy.theta_max[i]))
    [] sy.trans_type[i] = 2 ->
         FSub(FLog(tp - sy.theta_min[i]), FLog(t - sy.theta_min[i]))
    [] sy.trans_type[i] = 3 ->
         FSub(FSub(FAdd(FLog(sy.theta_max[i] - tp), FLog(tp - sy.theta_min[i])),
                   FLog(sy.theta_max[i] - t)),
              FLog(t - sy.theta_min[i]))

\* the values rnorm1(mean, sd) is let to return: the neighbours of mean on
\* the grid of parameter i (any sd > 0 gives each of them positive density)
rnorm1(sy, i, mean) ==
  LET step == IF sy.trans_type[i] = 0 THEN 1 ELSE 100
      lo == CASE sy.trans_type[i] = 0 -> 3 [] sy.trans_type[i] = 3 -> 0 - 100 [] OTHER -> 0
      hi == CASE sy.trans_type[i] = 0 -> 5 [] sy.trans_type[i] = 3 -> 100 [] OTHER -> 200
  IN {x \in {mean - step, mean + step} : lo <= x /\ x <= hi}

\* the values log(runif_0_1()) is let to return
LogU == {0 - 150, 0 - 10}

\* get_loglike, with the data-dependent terms (binomial and delay densities
\* summed over the ages) replaced by a fixed table of the parameter values
get_loglike(sy, theta) ==
  0 - 20 * (theta[0] - 3) * (theta[0] - 3) - 15 * Abs(theta[1] - 5)

\* get_logprior: a logistic-type term on the first node and a Gaussian
\* random-walk term (sd 0.5) on each later node
get_logprior(sy, theta) ==
  0 - 6 * Abs(theta[0] - 4) - 2 * (theta[1] - theta[0]) * (theta[1] - theta[0])

\* thermodynamic power of rung r, in units of 1 / BetaScale(rungs)
BetaScale(rungs) == IF rungs = 1 THEN 1 ELSE (rungs - 1) ^ GTI_pow

beta_raised_of(rungs, r) == IF rungs = 1 THEN 1 ELSE (rungs - 1 - r) ^ GTI_pow

\* 1000 * sqrt(n)
SqrtTab == <<1000, 1414, 1732, 2000, 2236, 2449, 2645, 2828, 3000, 3162>>

sqrt1000(n) == IF n <= Len(SqrtTab) THEN SqrtTab[n] ELSE SqrtTab[Len(SqrtTab)]

\* The field bw holds log(bw[i]) in units of 1/1000, so that the Robbins-Monro
\* updates exp(log(bw[i]) +- c / sqrt(bw_index[i])) are additions.
RobbinsMonroUp(p, i) == p.bw[i] + (p.bw_stepsize * (1000 - 234) * 1000) \div sqrt1000(p.bw_index[i])

\* as RobbinsMonroDown, but the bandwidth stays as it is
RobbinsMonroDown_flat(p, i) == p.bw[i]

RobbinsMonroDown(p, i) == p.bw[i] - (p.bw_stepsize * 234 * 1000) \div sqrt1000(p.bw_index[i])

\* Particle::init
ParticleInit(sy, beta) ==
  [theta |-> sy.theta_init,
   theta_prop |-> [i \in 0..(sy.d - 1) |-> 0],
   phi |-> theta_to_phi(sy, sy.theta_init),
   phi_prop |-> [i \in 0..(sy.d - 1) |-> 0],
   bw |-> [i \in 0..(sy.d - 1) |-> 0],   \* log(1.0)
   bw_index |-> [i \in 0..(sy.d - 1) |-> 1],
   bw_stepsize |-> 1,
   loglike |-> get_loglike(sy, sy.theta_init),
   loglike_prop |-> 0,
   logprior |-> get_logprior(sy, sy.theta_init),
   logprior_prop |-> 0,
   accept_count |-> 0,
   beta_raised |-> beta]

\* ---------------------------------------------------------------- delay lookup
\* The arguments m and s are in units of 1/200, so that floor(m * 100) is
\* m \div 2.  A density is in units of 0.5e-200: 0 is zero, 1 is a positive
\* value below 1e-200, 2 is 1e-200.
MaxMeanIndex == 2000
MaxSdIndex == 100
MaxDay == 100
DensityFloor == 2

floor100(v) == v \div 2

\* as get_delay_density, but the table is still read on day 101
get_delay_density_101(x, m, s, v) ==
  LET m_index == floor100(m)
      s_index == floor100(s)
  IN IF (m_index < 0) \/ (m_index > MaxMeanIndex) \/ (s_index < 0)
          \/ (s_index > MaxSdIndex) \/ (x < 0)
     THEN [status |-> "stop", ret |-> 0, read |-> <<>>]
     ELSE IF x > MaxDay + 1
     THEN [status |-> "return", ret |-> DensityFloor, read |-> <<>>]
     ELSE [status |-> "return", ret |-> v, read |-> <<m_index, s_index, x>>]

\* get_delay_density(x, m, s) where v is the value the table gamma_density_lookup
\* holds at [m_index][s_index][x]
get_delay_density(x, m, s, v) ==
  LET m_index == floor100(m)
      s_index == floor100(s)
  IN IF (m_index < 0) \/ (m_index > MaxMeanIndex) \/ (s_index < 0)
          \/ (s_index > MaxSdIndex) \/ (x < 0)
     THEN [status |-> "stop", ret |-> 0, read |-> <<>>]
     ELSE IF x > MaxDay
     THEN [status |-> "return", ret |-> DensityFloor, read |-> <<>>]
     ELSE [status |-> "return", ret |-> v, read |-> <<m_index, s_index, x>>]

\* get_delay_tail(x, m, s) where v is the value the table gamma_tail_lookup
\* holds at [m_index][s_index][x]
get_delay_tail(x, m, s, v) ==
  LET m_index == floor100(m)
      s_index == floor100(s)
  IN IF (m_index < 0) \/ (m_index > MaxMeanIndex) \/ (s_index < 0)
          \/ (s_index > MaxSdIndex) \/ (x < 0)
     THEN [status |-> "stop", ret |-> 0, read |-> <<>>]
     ELSE IF x > MaxDay
     THEN [status |-> "return", ret |-> DensityFloor, read |-> <<>>]
     ELSE [status |-> "return", ret |-> v, read |-> <<m_index, s_index, x>>]

\* the arguments of the calls explored: the days, means and coefficients of
\* variation around the limits of the lookup domain (5000 is the mean 25)
DelayDays == {0 - 1, 0, 1, 50, 100, 101, 150}
DelayMeans == {0 - 1, 0, 1, 2, 1000, 3999, 4000, 4001, 4002, 5000}
DelaySds == {0 - 1, 0, 1, 100, 200, 201, 202}
\* the non-negative values a table entry may hold
TableValues == 0..3

\* ---------------------------------------------------------------- state
VARIABLES
  s,                  \* the System object
  particle_vec,       \* rung -> Particle
  loglike_burnin, logprior_burnin, theta_burnin,
  loglike_sampling, logprior_sampling, theta_sampling,
  mc_accept_burnin, mc_accept_sampling,
  pc,                 \* position in run_mcmc: [phase, loc, rep, r, i]
  ci,                 \* loop index of coupling()
  adj,                \* the local adj of update()
  logu,               \* the last value of log(runif_0_1())
  proposed,           \* the swaps proposed so far in the current coupling pass
  sweeps,             \* rung -> number of update() calls completed
  passes,             \* number of coupling() calls started
  written,            \* the output-buffer entries written so far, in order
  visited,            \* the indices update() has proposed for in the current sweep
  delay,              \* the last call of get_delay_density or get_delay_tail
  ll                  \* the call of get_loglike: its loop over the ages

vars == <<written, visited, ll, delay, s, particle_vec, loglike_burnin, logprior_burnin, theta_burnin,
          loglike_sampling, logprior_sampling, theta_sampling,
          mc_accept_burnin, mc_accept_sampling, pc, ci, adj, logu,
          proposed, sweeps, passes>>

outputs == <<loglike_burnin, logprior_burnin, theta_burnin,
             loglike_sampling, logprior_sampling, theta_sampling>>

Rungs == 0..(s.rungs - 1)
Params == 0..(s.d - 1)

\* run_mcmc up to the start of the burn-in loop
InitRun(sy) ==
  LET pv == [r \in 0..(sy.rungs - 1) |-> ParticleInit(sy, beta_raised_of(sy.rungs, r))]
      zeros == [i \in 0..(sy.d - 1) |-> 0]
  IN /\ s = sy
     /\ particle_vec = pv
     /\ loglike_burnin = [r \in 0..(sy.rungs - 1) |->
           [n \in 0..(sy.burnin - 1) |-> IF n = 0 THEN pv[r].loglike ELSE 0]]
     /\ logprior_burnin = [r \in 0..(sy.rungs - 1) |->
           [n \in 0..(sy.burnin - 1) |-> IF n = 0 THEN pv[r].logprior ELSE 0]]
     /\ theta_burnin = [r \in 0..(sy.rungs - 1) |->
           [n \in 0..(sy.burnin - 1) |-> IF n = 0 THEN pv[r].theta ELSE zeros]]
     /\ loglike_sampling = [r \in 0..(sy.rungs - 1) |-> [n \in 0..(sy.samples - 1) |-> 0]]
     /\ logprior_sampling = [r \in 0..(sy.rungs - 1) |-> [n \in 0..(sy.samples - 1) |-> 0]]
     /\ theta_sampling = [r \in 0..(sy.rungs - 1) |-> [n \in 0..(sy.samples - 1) |-> zeros]]
     /\ mc_accept_burnin = [k \in 0..(sy.rungs - 2) |-> 0]
     /\ mc_accept_sampling = [k \in 0..(sy.rungs - 2) |-> 0]
     /\ pc = [phase |-> "burnin", loc |-> "rep", rep |-> 1, r |-> 0, i |-> 0]
     /\ ci = 0
     /\ adj = Fin(0)
     /\ logu = 0
     /\ proposed = <<>>
     /\ sweeps = [r \in 0..(sy.rungs - 1) |-> 0]
     /\ passes = 0
     /\ written = [k \in 1..sy.rungs |-> [buf |-> "burnin", r |-> k - 1, n |-> 0]]
     /\ visited = <<>>

NoCall == [fn |-> "none", x |-> 0, m |-> 0, s |-> 0,
           status |-> "none", ret |-> 0, read |-> <<>>]

NoLoglike == [status |-> "none", n_ages |-> 0, age |-> 0, ret |-> Fin(0),
              b |-> Fin(0), tmp |-> 0, lookup |-> "none"]

Init == /\ delay = NoCall
        /\ ll = NoLoglike
        /\ \E sy \in ValidSystems : InitRun(sy)

\* ---------------------------------------------------------------- update()
\* as RepLimit, but the loops run one iteration further
RepLimit_plus == IF pc.phase = "burnin" THEN s.burnin + 1 ELSE s.samples + 1

RepLimit == IF pc.phase = "burnin" THEN s.burnin ELSE s.samples

\* the rep loop enters its body
BeginRep ==
  /\ pc.loc = "rep"
  /\ pc.rep < RepLimit
  /\ pc' = [pc EXCEPT !.loc = "rung", !.r = 0]
  /\ UNCHANGED <<written, visited, ll, delay, s, particle_vec, outputs, mc_accept_burnin, mc_accept_sampling,
                 ci, adj, logu, proposed, sweeps, passes>>

\* update() starts on rung r: the proposal buffers take the current values
UpdateBegin ==
  /\ pc.loc = "rung"
  /\ pc.r < s.rungs
  /\ particle_vec' = [particle_vec EXCEPT
        ![pc.r].theta_prop = particle_vec[pc.r].theta,
        ![pc.r].phi_prop = particle_vec[pc.r].phi]
  /\ pc' = [pc EXCEPT !.loc = "param", !.i = 0]
  /\ visited' = <<>>
  /\ UNCHANGED <<written, ll, delay, s, outputs, mc_accept_burnin, mc_accept_sampling,
                 ci, adj, logu, proposed, sweeps, passes>>

\* a skipped parameter
SkipParam ==
  /\ pc.loc = "param"
  /\ pc.i < s.d
  /\ s.skip_param[pc.i]
  /\ pc' = [pc EXCEPT !.i = pc.i + 1]
  /\ UNCHANGED <<written, visited, ll, delay, s, particle_vec, outputs, mc_accept_burnin, mc_accept_sampling,
                 ci, adj, logu, proposed, sweeps, passes>>

\* as Propose, but skip_param is not consulted
Propose_any ==
  /\ pc.loc = "param"
  /\ pc.i < s.d
  /\ \E x \in rnorm1(s, pc.i, particle_vec[pc.r].phi[pc.i]) :
       LET p == particle_vec[pc.r]
           tp == phi_prop_to_theta_prop(s, pc.i, x)
           theta_prop1 == [p.theta_prop EXCEPT ![pc.i] = tp]
       IN /\ particle_vec' = [particle_vec EXCEPT
                ![pc.r].phi_prop = [p.phi_prop EXCEPT ![pc.i] = x],
                ![pc.r].theta_prop = theta_prop1,
                ![pc.r].loglike_prop = get_loglike(s, theta_prop1),
                ![pc.r].logprior_prop = get_logprior(s, theta_prop1)]
          /\ adj' = get_adjustment(s, pc.i, p.theta[pc.i], tp)
  /\ pc' = [pc EXCEPT !.loc = "decide"]
  /\ visited' = Append(visited, pc.i)
  /\ UNCHANGED <<written, ll, delay, s, outputs, mc_accept_burnin, mc_accept_sampling,
                 ci, logu, proposed, sweeps, passes>>

\* the proposal for parameter i: phi_prop[i], theta_prop[i], adj, loglike_prop
\* and logprior_prop
Propose ==
  /\ pc.loc = "param"
  /\ pc.i < s.d
  /\ ~s.skip_param[pc.i]
  /\ \E x \in rnorm1(s, pc.i, particle_vec[pc.r].phi[pc.i]) :
       LET p == particle_vec[pc.r]
           tp == phi_prop_to_theta_prop(s, pc.i, x)
           theta_prop1 == [p.theta_prop EXCEPT ![pc.i] = tp]
       IN /\ particle_vec' = [particle_vec EXCEPT
                ![pc.r].phi_prop = [p.phi_prop EXCEPT ![pc.i] = x],
                ![pc.r].theta_prop = theta_prop1,
                ![pc.r].loglike_prop = get_loglike(s, theta_prop1),
                ![pc.r].logprior_prop = get_logprior(s, theta_prop1)]
          /\ adj' = get_adjustment(s, pc.i, p.theta[pc.i], tp)
  /\ pc' = [pc EXCEPT !.loc = "decide"]
  /\ visited' = Append(visited, pc.i)
  /\ UNCHANGED <<written, ll, delay, s, outputs, mc_accept_burnin, mc_accept_sampling,
                 ci, logu, proposed, sweeps, passes>>

\* the Metropolis-Hastings ratio of particle p, times BetaScale
MH(p) ==
  FAdd(Fin(p.beta_raised * (p.loglike_prop - p.loglike)
           + BetaScale(s.rungs) * (p.logprior_prop - p.logprior)),
       FScale(BetaScale(s.rungs), adj))

\* as MH_accept, without the adjustment
MH_accept_no_adj(p, u) ==
  BetaScale(s.rungs) * u < p.beta_raised * (p.loglike_prop - p.loglike)
                            + BetaScale(s.rungs) * (p.logprior_prop - p.logprior)

MH_accept(p, u) == FLess(Fin(BetaScale(s.rungs) * u), MH(p))

\* as Accept, but the stored likelihood and prior keep their old values
Accept_stale ==
  /\ pc.loc = "decide"
  /\ \E u \in LogU :
       LET p == particle_vec[pc.r]
       IN /\ MH_accept(p, u)
          /\ logu' = u
          /\ particle_vec' = [particle_vec EXCEPT
                ![pc.r].theta = [p.theta EXCEPT ![pc.i] = p.theta_prop[pc.i]],
                ![pc.r].phi = [p.phi EXCEPT ![pc.i] = p.phi_prop[pc.i]],
                ![pc.r].bw = [p.bw EXCEPT ![pc.i] = RobbinsMonroUp(p, pc.i)],
                ![pc.r].bw_index = [p.bw_index EXCEPT ![pc.i] = p.bw_index[pc.i] + 1],
                ![pc.r].accept_count = p.accept_count + 1]
  /\ pc' = [pc EXCEPT !.loc = "param", !.i = pc.i + 1]
  /\ UNCHANGED <<written, visited, ll, delay, s, outputs, mc_accept_burnin, mc_accept_sampling,
                 ci, adj, proposed, sweeps, passes>>

\* the proposal is accepted
Accept ==
  /\ pc.loc = "decide"
  /\ \E u \in LogU :
       LET p == particle_vec[pc.r]
       IN /\ MH_accept(p, u)
          /\ logu' = u
          /\ particle_vec' = [particle_vec EXCEPT
                ![pc.r].theta = [p.theta EXCEPT ![pc.i] = p.theta_prop[pc.i]],
                ![pc.r].phi = [p.phi EXCEPT ![pc.i] = p.phi_prop[pc.i]],
                ![pc.r].loglike = p.loglike_prop,
                ![pc.r].logprior = p.logprior_prop,
                ![pc.r].bw = [p.bw EXCEPT ![pc.i] = RobbinsMonroUp(p, pc.i)],
                ![pc.r].bw_index = [p.bw_index EXCEPT ![pc.i] = p.bw_index[pc.i] + 1],
                ![pc.r].accept_count = p.accept_count + 1]
  /\ pc' = [pc EXCEPT !.loc = "param", !.i = pc.i + 1]
  /\ UNCHANGED <<written, visited, ll, delay, s, outputs, mc_accept_burnin, mc_accept_sampling,
                 ci, adj, proposed, sweeps, passes>>

\* the proposal is rejected
Reject ==
  /\ pc.loc = "decide"
  /\ \E u \in LogU :
       LET p == particle_vec[pc.r]
       IN /\ ~MH_accept(p, u)
          /\ logu' = u
          /\ particle_vec' = [particle_vec EXCEPT
                ![pc.r].theta_prop = [p.theta_prop EXCEPT ![pc.i] = p.theta[pc.i]],
                ![pc.r].phi_prop = [p.phi_prop EXCEPT ![pc.i] = p.phi[pc.i]],
                ![pc.r].bw = [p.bw EXCEPT ![pc.i] = RobbinsMonroDown(p, pc.i)],
                ![pc.r].bw_index = [p.bw_index EXCEPT ![pc.i] = p.bw_index[pc.i] + 1]]
  /\ pc' = [pc EXCEPT !.loc = "param", !.i = pc.i + 1]
  /\ UNCHANGED <<written, visited, ll, delay, s, outputs, mc_accept_burnin, mc_accept_sampling,
                 ci, adj, proposed, sweeps, passes>>

\* ---------------------------------------------------------------- run_mcmc
\* as Store, but the proposed likelihood and prior are stored
Store_prop ==
  /\ pc.loc = "param"
  /\ pc.i = s.d
  /\ sweeps' = [sweeps EXCEPT ![pc.r] = sweeps[pc.r] + 1]
  /\ written' = Append(written, [buf |-> pc.phase, r |-> pc.r, n |-> pc.rep])
  /\ IF pc.phase = "burnin"
     THEN /\ loglike_burnin' = [loglike_burnin EXCEPT ![pc.r][pc.rep] = particle_vec[pc.r].loglike_prop]
          /\ logprior_burnin' = [logprior_burnin EXCEPT ![pc.r][pc.rep] = particle_vec[pc.r].logprior_prop]
          /\ theta_burnin' = [theta_burnin EXCEPT ![pc.r][pc.rep] = particle_vec[pc.r].theta]
          /\ UNCHANGED <<loglike_sampling, logprior_sampling, theta_sampling>>
     ELSE /\ loglike_sampling' = [loglike_sampling EXCEPT ![pc.r][pc.rep] = particle_vec[pc.r].loglike_prop]
          /\ logprior_sampling' = [logprior_sampling EXCEPT ![pc.r][pc.rep] = particle_vec[pc.r].logprior_prop]
          /\ theta_sampling' = [theta_sampling EXCEPT ![pc.r][pc.rep] = particle_vec[pc.r].theta]
          /\ UNCHANGED <<loglike_burnin, logprior_burnin, theta_burnin>>
  /\ pc' = [pc EXCEPT !.loc = "rung", !.r = pc.r + 1]
  /\ UNCHANGED <<visited, ll, delay, s, particle_vec, mc_accept_burnin, mc_accept_sampling,
                 ci, adj, logu, proposed, passes>>

\* update() returns and the results of rung r are stored at index rep
Store ==
  /\ pc.loc = "param"
  /\ pc.i = s.d
  /\ sweeps' = [sweeps EXCEPT ![pc.r] = sweeps[pc.r] + 1]
  /\ written' = Append(written, [buf |-> pc.phase, r |-> pc.r, n |-> pc.rep])
  /\ IF pc.phase = "burnin"
     THEN /\ loglike_burnin' = [loglike_burnin EXCEPT ![pc.r][pc.rep] = particle_vec[pc.r].loglike]
          /\ logprior_burnin' = [logprior_burnin EXCEPT ![pc.r][pc.rep] = particle_vec[pc.r].logprior]
          /\ theta_burnin' = [theta_burnin EXCEPT ![pc.r][pc.rep] = particle_vec[pc.r].theta]
          /\ UNCHANGED <<loglike_sampling, logprior_sampling, theta_sampling>>
     ELSE /\ loglike_sampling' = [loglike_sampling EXCEPT ![pc.r][pc.rep] = particle_vec[pc.r].loglike]
          /\ logprior_sampling' = [logprior_sampling EXCEPT ![pc.r][pc.rep] = particle_vec[pc.r].logprior]
          /\ theta_sampling' = [theta_sampling EXCEPT ![pc.r][pc.rep] = particle_vec[pc.r].theta]
          /\ UNCHANGED <<loglike_burnin, logprior_burnin, theta_burnin>>
  /\ pc' = [pc EXCEPT !.loc = "rung", !.r = pc.r + 1]
  /\ UNCHANGED <<visited, ll, delay, s, particle_vec, mc_accept_burnin, mc_accept_sampling,
                 ci, adj, logu, proposed, passes>>

\* as RungsDone, but the loop ends after the first rung
RungsDone_early == pc.loc = "rung" /\ pc.r >= 1

\* the rung loop has ended
RungsDone == pc.loc = "rung" /\ pc.r >= s.rungs

\* coupling() is called
CouplingBegin ==
  /\ RungsDone
  /\ s.coupling_on
  /\ pc' = [pc EXCEPT !.loc = "couple"]
  /\ ci' = 0
  /\ proposed' = <<>>
  /\ passes' = passes + 1
  /\ UNCHANGED <<written, visited, ll, delay, s, particle_vec, outputs, mc_accept_burnin, mc_accept_sampling,
                 adj, logu, sweeps>>

\* coupling is switched off: the iteration ends
NoCoupling ==
  /\ RungsDone
  /\ ~s.coupling_on
  /\ pc' = [pc EXCEPT !.loc = "rep", !.rep = pc.rep + 1]
  /\ UNCHANGED <<written, visited, ll, delay, s, particle_vec, outputs, mc_accept_burnin, mc_accept_sampling,
                 ci, adj, logu, proposed, sweeps, passes>>

\* the acceptance ratio of the swap of rung1 and rung2, times BetaScale
acceptance(rung1, rung2) ==
  LET loglike1 == particle_vec[rung1].loglike
      loglike2 == particle_vec[rung2].loglike
      beta_raised1 == particle_vec[rung1].beta_raised
      beta_raised2 == particle_vec[rung2].beta_raised
  IN (loglike2 * beta_raised1 + loglike1 * beta_raised2)
       - (loglike1 * beta_raised1 + loglike2 * beta_raised2)

\* as accept_move, with the priors of the two rungs in the ratio
accept_move_with_prior(rung1, rung2, u) ==
  BetaScale(s.rungs) * u <
    acceptance(rung1, rung2)
      + BetaScale(s.rungs) * (particle_vec[rung2].logprior - particle_vec[rung1].logprior)

accept_move(rung1, rung2, u) == BetaScale(s.rungs) * u < acceptance(rung1, rung2)

\* as swap, without the temporaries: rung2 receives what rung1 already holds
swap_no_tmp(rung1, rung2) ==
  [particle_vec EXCEPT
     ![rung1].theta = particle_vec[rung2].theta,
     ![rung1].phi = particle_vec[rung2].phi,
     ![rung1].loglike = particle_vec[rung2].loglike,
     ![rung1].logprior = particle_vec[rung2].logprior]

\* as swap, but the bandwidths are exchanged too
swap_with_bw(rung1, rung2) ==
  [particle_vec EXCEPT
     ![rung1].theta = particle_vec[rung2].theta,
     ![rung2].theta = particle_vec[rung1].theta,
     ![rung1].phi = particle_vec[rung2].phi,
     ![rung2].phi = particle_vec[rung1].phi,
     ![rung1].loglike = particle_vec[rung2].loglike,
     ![rung2].loglike = particle_vec[rung1].loglike,
     ![rung1].logprior = particle_vec[rung2].logprior,
     ![rung2].logprior = particle_vec[rung1].logprior,
     ![rung1].bw = particle_vec[rung2].bw,
     ![rung2].bw = particle_vec[rung1].bw]

\* as swap, but the likelihoods stay with their rungs
swap_theta_only(rung1, rung2) ==
  [particle_vec EXCEPT
     ![rung1].theta = particle_vec[rung2].theta,
     ![rung2].theta = particle_vec[rung1].theta,
     ![rung1].phi = particle_vec[rung2].phi,
     ![rung2].phi = particle_vec[rung1].phi,
     ![rung1].logprior = particle_vec[rung2].logprior,
     ![rung2].logprior = particle_vec[rung1].logprior]

\* the particles after the swap of rung1 and rung2
swap(rung1, rung2) ==
  [particle_vec EXCEPT
     ![rung1].theta = particle_vec[rung2].theta,
     ![rung2].theta = particle_vec[rung1].theta,
     ![rung1].phi = particle_vec[rung2].phi,
     ![rung2].phi = particle_vec[rung1].phi,
     ![rung1].loglike = particle_vec[rung2].loglike,
     ![rung2].loglike = particle_vec[rung1].loglike,
     ![rung1].logprior = particle_vec[rung2].logprior,
     ![rung2].logprior = particle_vec[rung1].logprior]

\* the record of one proposed swap
Proposal(u, acc) ==
  [rung1 |-> ci, rung2 |-> ci + 1,
   loglike1 |-> particle_vec[ci].loglike, loglike2 |-> particle_vec[ci + 1].loglike,
   accept |-> acc]

\* one iteration of the loop of coupling(): the swap of ci and ci + 1 is accepted
SwapAccept ==
  /\ pc.loc = "couple"
  /\ ci < s.rungs - 1
  /\ \E u \in LogU :
       /\ accept_move(ci, ci + 1, u)
       /\ logu' = u
       /\ proposed' = Append(proposed, Proposal(u, TRUE))
  /\ particle_vec' = swap(ci, ci + 1)
  /\ IF pc.phase = "burnin"
     THEN /\ mc_accept_burnin' = [mc_accept_burnin EXCEPT ![ci] = mc_accept_burnin[ci] + 1]
          /\ UNCHANGED mc_accept_sampling
     ELSE /\ mc_accept_sampling' = [mc_accept_sampling EXCEPT ![ci] = mc_accept_sampling[ci] + 1]
          /\ UNCHANGED mc_accept_burnin
  /\ ci' = ci + 1
  /\ UNCHANGED <<written, visited, ll, delay, s, outputs, pc, adj, sweeps, passes>>

\* one iteration of the loop of coupling(): the swap is rejected
SwapReject ==
  /\ pc.loc = "couple"
  /\ ci < s.rungs - 1
  /\ \E u \in LogU :
       /\ ~accept_move(ci, ci + 1, u)
       /\ logu' = u
       /\ proposed' = Append(proposed, Proposal(u, FALSE))
  /\ ci' = ci + 1
  /\ UNCHANGED <<written, visited, ll, delay, s, particle_vec, outputs, mc_accept_burnin, mc_accept_sampling,
                 pc, adj, sweeps, passes>>

\* coupling() returns and the iteration ends
CouplingEnd ==
  /\ pc.loc = "couple"
  /\ ci >= s.rungs - 1
  /\ pc' = [pc EXCEPT !.loc = "rep", !.rep = pc.rep + 1]
  /\ UNCHANGED <<written, visited, ll, delay, s, particle_vec, outputs, mc_accept_burnin, mc_accept_sampling,
                 ci, adj, logu, proposed, sweeps, passes>>

\* the burn-in loop has ended: accept_count is reset on every rung
EndBurnin ==
  /\ pc.loc = "rep"
  /\ pc.phase = "burnin"
  /\ pc.rep >= s.burnin
  /\ particle_vec' = [r \in Rungs |-> [particle_vec[r] EXCEPT !.accept_count = 0]]
  /\ pc' = [pc EXCEPT !.phase = "sampling", !.rep = 0]
  /\ UNCHANGED <<written, visited, ll, delay, s, outputs, mc_accept_burnin, mc_accept_sampling,
                 ci, adj, logu, proposed, sweeps, passes>>

\* the sampling loop has ended: run_mcmc returns
EndSampling ==
  /\ pc.loc = "rep"
  /\ pc.phase = "sampling"
  /\ pc.rep >= s.samples
  /\ pc' = [pc EXCEPT !.loc = "done"]
  /\ UNCHANGED <<written, visited, ll, delay, s, particle_vec, outputs, mc_accept_burnin, mc_accept_sampling,
                 ci, adj, logu, proposed, sweeps, passes>>

Next ==
  \/ BeginRep
  \/ UpdateBegin
  \/ SkipParam
  \/ Propose
  \/ Accept
  \/ Reject
  \/ Store
  \/ CouplingBegin
  \/ NoCoupling
  \/ SwapAccept
  \/ SwapReject
  \/ CouplingEnd
  \/ EndBurnin
  \/ EndSampling

Spec == Init /\ [][Next]_vars

\* ---------------------------------------------------------------- delay calls
runvars == <<written, visited, s, particle_vec, loglike_burnin, logprior_burnin, theta_burnin,
             loglike_sampling, logprior_sampling, theta_sampling,
             mc_accept_burnin, mc_accept_sampling, pc, ci, adj, logu,
             proposed, sweeps, passes>>

\* the smallest run, standing by while the lookups are called
IdleSystem ==
  CHOOSE sy \in ValidSystems :
    /\ sy.rungs = 1 /\ sy.burnin = 1 /\ sy.samples = 1 /\ sy.coupling_on
    /\ sy.trans_type[0] = 0 /\ ~sy.skip_param[0]

InitDelay == delay = NoCall /\ ll = NoLoglike /\ InitRun(IdleSystem)

CallDelayDensity ==
  /\ delay.status = "none"
  /\ \E x \in DelayDays, m \in DelayMeans, sd \in DelaySds, v \in TableValues :
       LET res == get_delay_density(x, m, sd, v)
       IN delay' = [fn |-> "density", x |-> x, m |-> m, s |-> sd,
                    status |-> res.status, ret |-> res.ret, read |-> res.read]
  /\ UNCHANGED <<ll, runvars>>

CallDelayTail ==
  /\ delay.status = "none"
  /\ \E x \in DelayDays, m \in DelayMeans, sd \in DelaySds, v \in TableValues :
       LET res == get_delay_tail(x, m, sd, v)
       IN delay' = [fn |-> "tail", x |-> x, m |-> m, s |-> sd,
                    status |-> res.status, ret |-> res.ret, read |-> res.read]
  /\ UNCHANGED <<ll, runvars>>

\* the caller takes the value returned; after Rcpp::stop nothing follows
DelayReturn ==
  /\ delay.status = "return"
  /\ delay' = NoCall
  /\ UNCHANGED <<ll, runvars>>

NextDelay == CallDelayDensity \/ CallDelayTail \/ DelayReturn

SpecDelay == InitDelay /\ [][NextDelay]_vars

\* ---------------------------------------------------------------- get_loglike
\* The loop of get_loglike over the ages.  An age step adds the binomial
\* terms (their sum b is what R::dbinom gives: a finite value, -inf or NaN)
\* and, for a histogram bucket with count tmp > 0, tmp * log(get_delay_density).
MaxAges == 2

BinomTerms == {Fin(0 - 40), Fin(0), NInf, NaN}
BucketCounts == {0, 2}
\* the arguments of the lookups: a day inside and one past the table, the mean
\* 5 (the means are 20 * logistic, inside the domain), the coefficients of
\* variation 0.5 and 1.5
BucketDays == {3, 150}
BucketMeans == {1000}
BucketSds == {100, 300}

\* log of a density
FLogDensity(v) ==
  CASE v = 0 -> NInf
    [] v = 1 -> Fin(0 - 66539)
    [] v = 2 -> Fin(0 - 66439)
    [] OTHER -> Fin(0 - 300)

\* -DBL_MAX/100.0
LoglikeSentinel == Fin(0 - 1000000000)

\* as non_finite, but only NaN is caught
non_finite_nan_only(r) == r.k = "nan"

\* !isfinite(ret)
non_finite(r) == ~IsFinite(r)

InitLoglike ==
  /\ delay = NoCall
  /\ InitRun(IdleSystem)
  /\ \E n \in 1..MaxAges :
       ll = [status |-> "run", n_ages |-> n, age |-> 0, ret |-> Fin(0),
             b |-> Fin(0), tmp |-> 0, lookup |-> "none"]

\* one pass of the loop body for the age ll.age
LoglikeAge ==
  /\ ll.status = "run"
  /\ ll.age < ll.n_ages
  /\ \E b \in BinomTerms, tmp \in BucketCounts, x \in BucketDays,
        m \in BucketMeans, sd \in BucketSds, v \in TableValues :
       LET res == get_delay_density(x, m, sd, v)
           ret1 == FAdd(ll.ret, b)
           ret2 == IF tmp > 0 THEN FAdd(ret1, FScale(tmp, FLogDensity(res.ret))) ELSE ret1
       IN IF tmp > 0 /\ res.status = "stop"
          THEN ll' = [ll EXCEPT !.status = "stop", !.ret = ret1, !.b = b, !.tmp = tmp,
                                !.lookup = "stop"]
          ELSE IF non_finite(ret2)
          THEN ll' = [ll EXCEPT !.status = "stop", !.ret = ret2, !.b = b, !.tmp = tmp,
                                !.lookup = IF tmp > 0 THEN "return" ELSE "none"]
          ELSE ll' = [ll EXCEPT !.age = ll.age + 1, !.ret = ret2, !.b = b, !.tmp = tmp,
                                !.lookup = IF tmp > 0 THEN "return" ELSE "none"]
  /\ UNCHANGED <<delay, runvars>>

\* the loop has ended: the total is clamped and returned
LoglikeReturn ==
  /\ ll.status = "run"
  /\ ll.age >= ll.n_ages
  /\ ll' = [ll EXCEPT !.status = "return",
                      !.ret = IF ~IsFinite(ll.ret) THEN LoglikeSentinel ELSE ll.ret]
  /\ UNCHANGED <<delay, runvars>>

NextLoglike == LoglikeAge \/ LoglikeReturn

SpecLoglike == InitLoglike /\ [][NextLoglike]_vars

TypeOK == pc.loc \in {"rep", "rung", "param", "decide", "couple", "done"}

\* ---------------------------------------------------------------- claims
mc_accept == IF pc.phase = "burnin" THEN mc_accept_burnin ELSE mc_accept_sampling

\* C1: on every rung and for every index i, phi[i] is the theta-to-phi
\* transform of theta[i] under trans_type[i]; while update() runs on a rung,
\* the proposal buffers of that rung are consistent in the same way at every
\* index other than the one being proposed.
C1_PhiThetaConsistent ==
  /\ \A r \in Rungs : \A i \in Params :
        Fin(particle_vec[r].phi[i]) = theta_to_phi_at(s, i, particle_vec[r].theta[i])
  /\ pc.loc \in {"param", "decide"} =>
        \A j \in Params :
          (pc.loc = "decide" /\ j = pc.i)
            \/ Fin(particle_vec[pc.r].phi_prop[j])
                 = theta_to_phi_at(s, j, particle_vec[pc.r].theta_prop[j])

\* C1 witness: at the end of a run, a rung holds a value of a log-transformed
\* parameter that differs from its initial value, and a swap was accepted
C1_Witness ==
  /\ pc.loc = "done"
  /\ \E r \in Rungs : \E i \in Params :
        /\ s.trans_type[i] \in {2, 3}
        /\ particle_vec[r].theta[i] # s.theta_init[i]
  /\ \E k \in DOMAIN mc_accept_sampling : mc_accept_sampling[k] > 0

\* C2: an accepted swap of rungs ci and ci + 1 exchanges exactly theta, phi,
\* loglike and logprior of the two rungs and adds 1 to mc_accept[ci]; every
\* other field of the two rungs and every other rung are unchanged.  A rejected
\* swap changes nothing.
C2_SwapFrame ==
  [][(pc.loc = "couple" /\ ci' = ci + 1) =>
      LET a == particle_vec[ci]
          b == particle_vec[ci + 1]
      IN IF proposed'[Len(proposed')].accept
         THEN /\ particle_vec'[ci] = [a EXCEPT !.theta = b.theta, !.phi = b.phi,
                                                !.loglike = b.loglike, !.logprior = b.logprior]
              /\ particle_vec'[ci + 1] = [b EXCEPT !.theta = a.theta, !.phi = a.phi,
                                                    !.loglike = a.loglike, !.logprior = a.logprior]
              /\ \A r \in Rungs \ {ci, ci + 1} : particle_vec'[r] = particle_vec[r]
              /\ mc_accept' = [mc_accept EXCEPT ![ci] = mc_accept[ci] + 1]
              /\ (pc.phase = "burnin" => mc_accept_sampling' = mc_accept_sampling)
              /\ (pc.phase # "burnin" => mc_accept_burnin' = mc_accept_burnin)
              /\ outputs' = outputs
         ELSE /\ particle_vec' = particle_vec
              /\ mc_accept_burnin' = mc_accept_burnin
              /\ mc_accept_sampling' = mc_accept_sampling
              /\ outputs' = outputs]_vars

\* C2 witness: a swap has just been accepted between two rungs that hold
\* different parameter values and different bandwidths
C2_Witness ==
  /\ pc.loc = "couple"
  /\ ci > 0
  /\ proposed[ci].accept
  /\ particle_vec[ci - 1].theta # particle_vec[ci].theta
  /\ particle_vec[ci - 1].bw # particle_vec[ci].bw

\* C3: a coupling pass proposes the pairs (0,1), (1,2), ... in this order,
\* rungs - 1 of them in all, and the proposal for (i, i+1) reads the
\* log-likelihood rung i holds after the outcome of the pair (i-1, i).
C3_AdjacentInOrder ==
  /\ pc.loc = "couple" => Len(proposed) = ci
  /\ (passes > 0 /\ (pc.loc # "couple" \/ ci >= s.rungs - 1)) => Len(proposed) = s.rungs - 1
  /\ \A k \in 1..Len(proposed) :
        /\ proposed[k].rung1 = k - 1
        /\ proposed[k].rung2 = k
        /\ k > 1 => proposed[k].loglike1 =
                      (IF proposed[k - 1].accept THEN proposed[k - 1].loglike1
                       ELSE proposed[k - 1].loglike2)

\* C3 witness: a pass over three rungs has ended whose first swap was accepted
\* between rungs of different log-likelihood
C3_Witness ==
  /\ pc.loc = "rep"
  /\ Len(proposed) = 2
  /\ proposed[1].accept
  /\ proposed[1].loglike1 # proposed[1].loglike2

\* the output buffers of the current phase
loglike_out == IF pc.phase = "burnin" THEN loglike_burnin ELSE loglike_sampling
logprior_out == IF pc.phase = "burnin" THEN logprior_burnin ELSE logprior_sampling
theta_out == IF pc.phase = "burnin" THEN theta_burnin ELSE theta_sampling

\* C4 as stated: the results of an iteration are appended after that
\* iteration's couple() pass, so when a rung's results for its n-th sweep are
\* stored, n coupling passes have been made.
C4_StoredAfterCouple ==
  [][(s.coupling_on /\ sweeps' # sweeps) => passes >= sweeps'[pc.r]]_vars

\* C4 as amended: the results of rung r are stored right after the update()
\* of rung r and before that iteration's couple() pass: when they are stored
\* for the n-th sweep, n - 1 passes have been made and the values stored are
\* the ones the rung holds at that moment; a pass starts only when every rung
\* has stored its results, and changes no output buffer.
C4_StoredBeforeCouple ==
  [][/\ sweeps' # sweeps =>
          /\ passes' = passes
          /\ s.coupling_on => passes = sweeps[pc.r]
          /\ loglike_out'[pc.r][pc.rep] = particle_vec[pc.r].loglike
          /\ logprior_out'[pc.r][pc.rep] = particle_vec[pc.r].logprior
          /\ theta_out'[pc.r][pc.rep] = particle_vec[pc.r].theta
     /\ passes' # passes => \A r \in Rungs : sweeps[r] = passes'
     /\ pc.loc = "couple" => outputs' = outputs]_vars

\* C4 witness: a coupling pass has ended and a rung holds parameter values
\* other than the ones stored for it in this iteration
C4_Witness ==
  /\ pc.loc = "couple"
  /\ ci >= s.rungs - 1
  /\ \E r \in Rungs : theta_out[r][pc.rep] # particle_vec[r].theta

\* C5 as stated: beta_raised is monotonic in the rung index and the rung at
\* index rungs - 1 has beta_raised = 1.
C5_LastRungHasBetaOne ==
  /\ \/ \A r1, r2 \in Rungs :
          r1 < r2 => particle_vec[r1].beta_raised <= particle_vec[r2].beta_raised
     \/ \A r1, r2 \in Rungs :
          r1 < r2 => particle_vec[r1].beta_raised >= particle_vec[r2].beta_raised
  /\ particle_vec[s.rungs - 1].beta_raised = BetaScale(s.rungs)

\* C6: a coupling pass is in progress only when every rung has completed its
\* update() of the iteration, and an update() runs only when the coupling pass
\* of the iteration before has ended.
C6_CouplingAfterAllUpdates ==
  /\ pc.loc = "couple" => \A r \in Rungs : sweeps[r] = passes
  /\ pc.loc \in {"param", "decide"} =>
        /\ \A r \in Rungs : sweeps[r] = (IF r < pc.r THEN passes + 1 ELSE passes)
              \/ ~s.coupling_on
        /\ passes > 0 => (ci >= s.rungs - 1 /\ Len(proposed) = s.rungs - 1)

\* C6 witness: the second coupling pass of a run over two rungs is in progress
C6_Witness ==
  /\ pc.loc = "couple"
  /\ s.rungs = 2
  /\ passes = 2
  /\ ci = 1

\* C7: the proposal for index i is accepted iff
\* log(U) < beta * (loglike_prop - loglike) + (logprior_prop - logprior) + adj.
\* On accept theta[i], phi[i], loglike and logprior take the proposed values
\* and accept_count grows by 1; on reject they are unchanged and the proposal
\* buffers at i are restored; theta[j] and phi[j], j # i, are unchanged.
C7_MetropolisStep ==
  [][(pc.loc = "decide" /\ pc'.loc = "param") =>
      LET p == particle_vec[pc.r]
          q == particle_vec'[pc.r]
          i == pc.i
          scale == BetaScale(s.rungs)
          ratio == FAdd(Fin(p.beta_raised * (p.loglike_prop - p.loglike)
                            + scale * (p.logprior_prop - p.logprior)),
                        FScale(scale, adj))
      IN /\ IF FLess(Fin(scale * logu'), ratio)
            THEN /\ q.theta[i] = p.theta_prop[i]
                 /\ q.phi[i] = p.phi_prop[i]
                 /\ q.loglike = p.loglike_prop
                 /\ q.logprior = p.logprior_prop
                 /\ q.accept_count = p.accept_count + 1
            ELSE /\ q.theta = p.theta
                 /\ q.phi = p.phi
                 /\ q.loglike = p.loglike
                 /\ q.logprior = p.logprior
                 /\ q.accept_count = p.accept_count
                 /\ q.theta_prop[i] = p.theta[i]
                 /\ q.phi_prop[i] = p.phi[i]
         /\ \A j \in Params \ {i} : q.theta[j] = p.theta[j] /\ q.phi[j] = p.phi[j]
         /\ \A r \in Rungs \ {pc.r} : particle_vec'[r] = particle_vec[r]]_vars

\* C7 witness: in its first sweep a rung has accepted one proposal, with an
\* adjustment other than 0, and rejected the other
C7_Witness ==
  /\ pc.loc = "param"
  /\ pc.i = s.d
  /\ sweeps[pc.r] = 0
  /\ adj.k = "fin"
  /\ adj.v # 0
  /\ particle_vec[pc.r].accept_count = 1
  /\ particle_vec[pc.r].theta[1] # s.theta_init[1]
  /\ particle_vec[pc.r].bw_index[0] = 2

\* C8 as stated: with theta[i] and theta_prop[i] strictly inside the bounds,
\* the adjustment is 0 for kind 0, log(max - theta_prop) - log(max - theta)
\* for kind 1, log(theta_prop - min) - log(theta - min) for kind 2 and the sum
\* of both for kind 3, and every logarithm taken has a positive argument (the
\* adjustment is finite).
C8_AdjustmentIsJacobian ==
  pc.loc = "decide" =>
    LET i == pc.i
        t == particle_vec[pc.r].theta[i]
        tp == particle_vec[pc.r].theta_prop[i]
        upper == FSub(FLog(s.theta_max[i] - tp), FLog(s.theta_max[i] - t))
        lower == FSub(FLog(tp - s.theta_min[i]), FLog(t - s.theta_min[i]))
    IN /\ IsFinite(adj)
       /\ adj = CASE s.trans_type[i] = 0 -> Fin(0)
                  [] s.trans_type[i] = 1 -> upper
                  [] s.trans_type[i] = 2 -> lower
                  [] s.trans_type[i] = 3 -> FAdd(upper, lower)

\* C9 as stated: a call that returns gives at least the floor 1e-200, whatever
\* non-negative value the table holds.
C9_AtLeastFloor == delay.status = "return" => delay.ret >= DensityFloor

C11_AbortIffNonFinite ==
  /\ ll.status = "stop" <=> ~IsFinite(ll.ret)
  /\ ll.status = "return" => IsFinite(ll.ret)

\* C11 as amended: a call of get_loglike aborts exactly when a delay lookup of
\* an age step is outside the lookup domain or the running sum is non-finite
\* at the end of an age step; otherwise the sum stays finite and a finite
\* value is returned.
C11_AbortIffLookupOrNonFinite ==
  /\ ll.status = "stop" <=> (ll.lookup = "stop" \/ ~IsFinite(ll.ret))
  /\ ll.status \in {"run", "return"} => IsFinite(ll.ret)
  /\ ll.lookup = "stop" => ll.tmp > 0

\* C11 witness: the call has aborted in its second age step on a sum of -inf
\* that a zero density gave
C11_Witness ==
  /\ ll.status = "stop"
  /\ ll.age = 1
  /\ ll.lookup = "return"
  /\ ll.ret = NInf
  /\ IsFinite(ll.b)
\* C12: the swap proposed for rungs i and i + 1 is accepted (the states are
\* exchanged and mc_accept[i] is incremented) exactly when
\* log(U) < (L2*b1 + L1*b2) - (L1*b1 + L2*b2), with L and b the stored
\* loglike and beta_raised of the two rungs before the proposal and U the
\* uniform draw; otherwise nothing but the loop index changes.
C12_SwapRule ==
  [][(pc.loc = "couple" /\ ci' = ci + 1) =>
      LET L1 == particle_vec[ci].loglike
          L2 == particle_vec[ci + 1].loglike
          b1 == particle_vec[ci].beta_raised
          b2 == particle_vec[ci + 1].beta_raised
          ratio == (L2 * b1 + L1 * b2) - (L1 * b1 + L2 * b2)
      IN IF BetaScale(s.rungs) * logu' < ratio
         THEN /\ mc_accept'[ci] = mc_accept[ci] + 1
              /\ particle_vec'[ci].theta = particle_vec[ci + 1].theta
              /\ particle_vec'[ci + 1].theta = particle_vec[ci].theta
         ELSE /\ mc_accept' = mc_accept
              /\ particle_vec' = particle_vec]_vars

\* a swap towards the lower likelihood was accepted and, in the same pass, the
\* next one was rejected although the two priors differ
C12_Witness ==
  /\ Len(proposed) >= 2
  /\ proposed[1].accept
  /\ proposed[1].loglike2 < proposed[1].loglike1
  /\ ~proposed[2].accept
  /\ particle_vec[1].logprior # particle_vec[2].logprior

\* C13: when a swap of rungs i and i + 1 has been accepted, the same swap
\* applied once more to the resulting particles, nothing else having changed,
\* gives back theta, phi, loglike and logprior of every rung as they were
\* before the first swap.
C13_SwapTwice ==
  [][(pc.loc = "couple" /\ ci' = ci + 1 /\ mc_accept'[ci] = mc_accept[ci] + 1) =>
      \A k \in Rungs : k = ci =>
         \A r \in Rungs :
            /\ (swap(k, k + 1))'[r].theta = particle_vec[r].theta
            /\ (swap(k, k + 1))'[r].phi = particle_vec[r].phi
            /\ (swap(k, k + 1))'[r].loglike = particle_vec[r].loglike
            /\ (swap(k, k + 1))'[r].logprior = particle_vec[r].logprior]_vars

\* a swap has just been accepted between two rungs that differ in theta, phi,
\* loglike and logprior
C13_Witness ==
  /\ pc.loc = "couple"
  /\ ci > 0
  /\ proposed[ci].accept
  /\ particle_vec[ci - 1].theta # particle_vec[ci].theta
  /\ particle_vec[ci - 1].phi # particle_vec[ci].phi
  /\ particle_vec[ci - 1].loglike # particle_vec[ci].loglike
  /\ particle_vec[ci - 1].logprior # particle_vec[ci].logprior

\* C14: at every point of a run, on every rung, the stored loglike and
\* logprior are the values of get_loglike and get_logprior at the rung's
\* current theta.
C14_CacheFresh ==
  \A r \in Rungs :
     /\ particle_vec[r].loglike = get_loglike(s, particle_vec[r].theta)
     /\ particle_vec[r].logprior = get_logprior(s, particle_vec[r].theta)

\* a coupling pass has ended in which a swap was accepted between rungs of
\* different likelihood, some rung has moved away from the initial values in
\* a sweep, and some proposal was rejected
C14_Witness ==
  /\ pc.loc = "rep"
  /\ \E k \in 1..Len(proposed) :
        proposed[k].accept /\ proposed[k].loglike1 # proposed[k].loglike2
  /\ \E r \in Rungs :
        /\ particle_vec[r].accept_count > 0
        /\ get_loglike(s, particle_vec[r].theta) # get_loglike(s, s.theta_init)
        /\ get_logprior(s, particle_vec[r].theta) # get_logprior(s, s.theta_init)
  /\ \E r \in Rungs, i \in Params : particle_vec[r].bw[i] < 0

\* C15: every accepted or rejected proposal for a parameter i adds exactly 1
\* to bw_index[i]; bw[i] becomes strictly larger when the proposal is accepted
\* and strictly smaller, still positive (its logarithm is a finite number),
\* when it is rejected.  So bw_index[i] >= 1 always, and a rung that has
\* completed n sweeps has bw_index[i] = 1 + n for every non-skipped i (one
\* more at the indices the running sweep has already passed).
C15_BandwidthSteps ==
  /\ [](\A r \in Rungs : \A i \in Params :
          /\ particle_vec[r].bw_index[i] >= 1
          /\ ~s.skip_param[i] =>
                particle_vec[r].bw_index[i] =
                  1 + sweeps[r]
                    + (IF pc.loc \in {"param", "decide"} /\ pc.r = r /\ i < pc.i
                       THEN 1 ELSE 0))
  /\ [][(pc.loc = "decide" /\ pc'.loc = "param") =>
          LET p == particle_vec[pc.r]
              q == particle_vec'[pc.r]
              i == pc.i
          IN /\ ~s.skip_param[i]
             /\ q.bw_index[i] = p.bw_index[i] + 1
             /\ q.bw[i] \in Int
             /\ IF q.accept_count = p.accept_count + 1
                THEN q.bw[i] > p.bw[i]
                ELSE q.accept_count = p.accept_count /\ q.bw[i] < p.bw[i]]_vars

\* between two iterations, a rung has completed three sweeps in which one
\* parameter was accepted more often than not and another was rejected
C15_Witness ==
  /\ pc.loc = "rep"
  /\ \E r \in Rungs :
        /\ sweeps[r] = 3
        /\ \E i, j \in Params :
              /\ particle_vec[r].bw_index[i] = 4
              /\ particle_vec[r].bw[i] > 0
              /\ particle_vec[r].bw[j] < 0

\* the entries of the two output buffers of every rung
AllEntries ==
  {[buf |-> "burnin", r |-> r, n |-> n] : r \in Rungs, n \in 0..(s.burnin - 1)}
    \cup {[buf |-> "sampling", r |-> r, n |-> n] : r \in Rungs, n \in 0..(s.samples - 1)}

\* an upper bound of the number of steps one iteration of either loop takes
IterSteps == s.rungs * (2 * s.d + 2) + s.rungs + 2

\* an upper bound of the number of steps left in the current iteration
StepsLeftInIter ==
  CASE pc.loc = "rung" -> IterSteps - 1 - pc.r * (2 * s.d + 2)
    [] pc.loc = "param" -> IterSteps - 2 - pc.r * (2 * s.d + 2) - 2 * pc.i
    [] pc.loc = "decide" -> IterSteps - 3 - pc.r * (2 * s.d + 2) - 2 * pc.i
    [] pc.loc = "couple" -> s.rungs - ci
    [] OTHER -> 0

\* the iterations of the current loop that have not started yet
ItersLeft ==
  LET limit == IF pc.phase = "burnin" THEN s.burnin ELSE s.samples
      next == IF pc.loc = "rep" THEN pc.rep ELSE pc.rep + 1
  IN IF next < limit THEN limit - next ELSE 0

\* an upper bound of the number of steps left in the run
StepsLeft ==
  IF pc.loc = "done" THEN 0
  ELSE ItersLeft * IterSteps + StepsLeftInIter + 1
         + (IF pc.phase = "burnin" THEN s.samples * IterSteps + 1 ELSE 0)

NonSkippedBelow(n) ==
  LET RECURSIVE upto(_)
      upto(k) == IF k = 0 THEN <<>>
                 ELSE IF s.skip_param[k - 1] THEN upto(k - 1)
                 ELSE Append(upto(k - 1), k - 1)
  IN upto(n)

\* C17: while update() runs on a rung, no step changes theta, phi, bw or
\* bw_index at a skipped index; the step that passes a skipped index changes
\* nothing but the loop index (no proposal is drawn, no likelihood or prior is
\* evaluated, accept_count stays); and the indices proposed for in a sweep are
\* the non-skipped indices, once each, in increasing order.
C17_SkipFrame ==
  /\ [](/\ pc.loc = "param" => visited = NonSkippedBelow(pc.i)
        /\ pc.loc = "decide" => visited = NonSkippedBelow(pc.i + 1))
  /\ [][pc.loc \in {"rung", "param", "decide"} =>
          /\ \A r \in Rungs : \A j \in Params : s.skip_param[j] =>
                /\ particle_vec'[r].theta[j] = particle_vec[r].theta[j]
                /\ particle_vec'[r].phi[j] = particle_vec[r].phi[j]
                /\ particle_vec'[r].bw[j] = particle_vec[r].bw[j]
                /\ particle_vec'[r].bw_index[j] = particle_vec[r].bw_index[j]
          /\ (pc.loc = "param" /\ pc.i < s.d /\ s.skip_param[pc.i]) =>
                /\ pc' = [pc EXCEPT !.i = pc.i + 1]
                /\ particle_vec' = particle_vec
                /\ visited' = visited
                /\ adj' = adj
                /\ logu' = logu]_vars

\* a sweep over a rung whose index 0 is skipped has ended: index 1 alone was
\* proposed for, and accepted, while index 0 keeps its initial values
C17_Witness ==
  /\ pc.loc = "param"
  /\ pc.i = s.d
  /\ s.skip_param[0]
  /\ visited = <<1>>
  /\ particle_vec[pc.r].theta[1] # s.theta_init[1]
  /\ particle_vec[pc.r].bw_index[0] = 1
  /\ particle_vec[pc.r].bw_index[1] > 1

====
